---- MODULE Spec2Model ----
(***************************************************************************)
(* Model of the outbound-notification pipeline (warden-outbound-action):   *)
(*   - the SQS batch handlers of transformation.py and sender.py           *)
(*     (record_handler, handler, the retry/poison threshold),              *)
(*   - util/query.py query_enabled_destinations,                           *)
(*   - transformation.py query_rules and transform_message.                *)
(***************************************************************************)
EXTENDS Integers, Sequences, FiniteSets, TLC

\* ------------------------------------------------------------------------
\* Bounds of the model
\* ------------------------------------------------------------------------
\* number of records the queue transport ever holds
NumRecords == 3
\* largest batch the transport hands to one invocation
MaxBatch == 3
\* the transport stops delivering a record after this many deliveries
MaxDeliveries == 5
\* largest receive count of the single-record invocations of SpecRecord
MaxCount == 4
\* largest number of rows the query of query_rules returns
MaxRows == 3
\* largest destination_configuration list of an action group
MaxConfigs == 3
\* largest destination_configuration list transform_message is run on
MaxDest == 2
\* longest severities list of a filter
MaxSevs == 2
\* create_summary calls in a row (records of a batch, batches, redeliveries)
MaxMessages == 2

\* ------------------------------------------------------------------------
\* Program constants
\* ------------------------------------------------------------------------
\* transformation.py:72 / sender.py:45, default of the environment variable
MAX_RECEIVE_COUNT == 3

Records == 1..NumRecords

\* (msg_type, version) identities that occur in the pipeline
IndexCompleteId == <<"IndexComplete", "1">>
SnsSummaryInputId == <<"SnsSummaryInput", "1">>
PubSubSummaryInputId == <<"PubSubSummaryInput", "1">>
MsgTypeIds == {IndexCompleteId, SnsSummaryInputId, PubSubSummaryInputId}
NoTypeId == <<"", "">>

Procs == {"transformation", "sender"}

\* Shapes of an SQS record body:
\*   not_json  : json.loads(record.body) raises
\*   no_detail : valid JSON without a "detail" key, obj["detail"] raises
\*   no_type   : detail without a parsable (msg_type, version)
\*   ok        : well-formed, detail carries type_id and a content payload
BodyKinds == {"not_json", "no_detail", "no_type", "ok"}

Body(kind, tid, content) == [kind |-> kind, type_id |-> tid, content |-> content]

\* every body a record can carry; the content payload names the record
AllBodiesOf(r) ==
    {Body("not_json", NoTypeId, 0), Body("no_detail", NoTypeId, 0),
     Body("no_type", NoTypeId, r)}
    \cup {Body("ok", tid, r) : tid \in MsgTypeIds}

\* In the queue model each record is either malformed in one way (the way
\* depends on the record, so that all three ways occur) or well-formed with
\* any identity
DecodeKindOf(r) ==
    IF r % 3 = 1 THEN "not_json"
    ELSE IF r % 3 = 2 THEN "no_detail" ELSE "no_type"

BodiesOf(r) == {b \in AllBodiesOf(r) : b.kind \in {"ok", DecodeKindOf(r)}}

VARIABLES
    proc,              \* which Lambda module is loaded
    registry,          \* blinker signals: msg_type_id -> set of receivers
    body,              \* record -> body (immutable message content)
    status,            \* record -> "queued" | "inflight" | "acked"
    receive_count,     \* record -> ApproximateReceiveCount
    pc,                \* "idle" | "processing" | "returned"
    batch,             \* event["Records"] of the running invocation
    idx,               \* position of the next record in batch
    success_messages,  \* processor.success_messages
    fail_messages,     \* processor.fail_messages
    batch_response,    \* processor.batch_response (batchItemFailures)
    outcome,           \* how the invocation ended: "none"|"response"|"raise"
    calls,             \* receivers invoked during the running invocation
    attempted,         \* records handed to record_handler, in order
    results,           \* record -> what record_handler did in this invocation
    attempts,          \* record -> number of record_handler calls ever
    invocations,       \* record -> number of receiver calls ever
    completed,         \* record -> number of receiver calls that returned
    connection,        \* the database connection: "closed" | "open"
    connects,          \* connections opened by the running invocation
    \* --- query_rules ---
    rows,              \* rows fetched from the query so far
    rules,             \* the dict rules, as its values in insertion order
    converted,         \* per fetched row: the try block ended without error
    first_result,      \* what the previous query_rules call returned
    rpc,               \* "idle" | "loop" | "returned" | "returned_again"
    \* --- query_enabled_destinations ---
    destination_configuration,  \* action_group's list: present?, blocks read
    kinds,             \* destination_types asked for
    yielded,           \* the (config, destination) pairs yielded so far
    lookup_failed,     \* positions whose destination query raised
    qpc,               \* "idle" | "loop" | "done" | "raised"
    \* --- transform_message / create_summary ---
    action,            \* session.query(Action).get(...): its action_type
    repo,              \* the failed-check rows of the task in the database
    aggregated,        \* the local `aggregated`: None or a list of Rule
    query_log,         \* severities argument of each query_rules call
    emitted,           \* the messages transform_message yielded
    put_events_calls,  \* each client.put_events call: Entries, response
    failed_destinations,  \* the destinations whose loop body raised: pos, why
    earlier_calls,     \* the earlier create_summary calls of the process:
                       \* their task's rows and their local aggregated
    tpc,               \* "idle" | "start" | "loop" | "done" | "raised" |
                       \* "put_events_raised"
    \* --- query_rules: the severity restriction of its query ---
    arg_filters,       \* the argument filters
    local_severities,  \* the local severities
    query_params,      \* what the checks query is parameterized with
    fpc,               \* "idle" | "called" | "computed" | "queried"
    \* --- send_sns_summary ---
    sns_content,       \* message.content: topic ARN, summary, extra fields
    region,            \* the local region ("" before the match)
    publish_calls,     \* each client.publish call of the running receiver
                       \* call: arguments and response
    approximate_receive_count,  \* of the record that carries the message
    spc                \* "idle" | "start" | "matched" | "logged" | "done" |
                       \* "raised"; after record_handler's except clause:
                       \* "failed" (re-raised) | "dropped" (given up)

dispVars == <<proc, registry, body, status, receive_count, pc, batch, idx,
              success_messages, fail_messages, batch_response, outcome,
              calls, attempted, results, attempts, invocations, completed,
              connection, connects>>

rulesVars == <<rows, rules, converted, first_result, rpc>>

resolveVars == <<destination_configuration, kinds, yielded, lookup_failed,
                 qpc>>

transformVars == <<action, repo, aggregated, query_log, emitted,
                   put_events_calls, failed_destinations, earlier_calls, tpc>>

paramVars == <<arg_filters, local_severities, query_params, fpc>>

sendVars == <<sns_content, region, publish_calls, approximate_receive_count,
              spc>>

\* everything but the batch handler's state
nonDispVars == <<rulesVars, resolveVars, transformVars, paramVars, sendVars>>

vars == <<dispVars, rulesVars, resolveVars, transformVars, paramVars,
          sendVars>>

\* ------------------------------------------------------------------------
\* Type registry
\* ------------------------------------------------------------------------
EmptyRegistry == [tid \in MsgTypeIds |-> {}]

\* register(msg_cls=Message[X], receiver=f): binds f to X's identity
register(reg, tid, receiver) == [reg EXCEPT ![tid] = {receiver}]

\* the registrations each module performs when it is loaded
ModuleRegistry(p) ==
    IF p = "transformation"
    THEN register(EmptyRegistry, IndexCompleteId, "create_summary")
    ELSE register(EmptyRegistry, SnsSummaryInputId, "send_sns_summary")

\* ------------------------------------------------------------------------
\* record_handler (transformation.py:336-360, sender.py:87-111)
\* ------------------------------------------------------------------------
\* the detail payload a record carries (obj["detail"])
DetailOf(b) == [msg_type_id |-> b.type_id, content |-> b.content]

\* variant of send: the receiver is called a second time
send_twice(rec, receivers, detail) ==
    IF receivers = {} THEN <<>>
    ELSE LET recv == CHOOSE f \in receivers : TRUE
             c == [record |-> rec, receiver |-> recv, detail |-> detail]
         IN  <<c, c>>

\* s.send(detail): every receiver connected to the signal is called once
\* with the detail; an exception raised by a receiver propagates
send(rec, receivers, detail) ==
    IF receivers = {} THEN <<>>
    ELSE LET recv == CHOOSE f \in receivers : TRUE
         IN  <<[record |-> rec, receiver |-> recv, detail |-> detail]>>

\* variant of try_block: a missing receiver is an error
try_block_unrouted_raises(reg, rec, b, hb) ==
    IF b.kind = "not_json" \/ b.kind = "no_detail" \/ b.kind = "no_type"
    THEN [route |-> "decode_error", raised |-> TRUE, invoked |-> <<>>]
    ELSE LET receivers == reg[b.type_id]
         IN  IF receivers # {}
             THEN [route |-> IF hb = "raise" THEN "handler_raised"
                                             ELSE "handler_returned",
                   raised |-> (hb = "raise"),
                   invoked |-> send(rec, receivers, DetailOf(b))]
             ELSE [route |-> "no_receiver", raised |-> TRUE,
                   invoked |-> <<>>]

\* variant of try_block: an exception of the receiver is swallowed by the
\* dispatch step
try_block_swallows_handler(reg, rec, b, hb) ==
    IF b.kind = "not_json" \/ b.kind = "no_detail" \/ b.kind = "no_type"
    THEN [route |-> "decode_error", raised |-> TRUE, invoked |-> <<>>]
    ELSE LET receivers == reg[b.type_id]
         IN  IF receivers # {}
             THEN [route |-> "handler_returned", raised |-> FALSE,
                   invoked |-> send(rec, receivers, DetailOf(b))]
             ELSE [route |-> "no_receiver", raised |-> FALSE,
                   invoked |-> <<>>]

\* variant of try_block: a record that cannot be decoded is logged and
\* passed over like one without receiver
try_block_decode_ignored(reg, rec, b, hb) ==
    IF b.kind = "not_json" \/ b.kind = "no_detail" \/ b.kind = "no_type"
    THEN [route |-> "decode_error", raised |-> FALSE, invoked |-> <<>>]
    ELSE LET receivers == reg[b.type_id]
         IN  IF receivers # {}
             THEN [route |-> IF hb = "raise" THEN "handler_raised"
                                             ELSE "handler_returned",
                   raised |-> (hb = "raise"),
                   invoked |-> send(rec, receivers, DetailOf(b))]
             ELSE [route |-> "no_receiver", raised |-> FALSE,
                   invoked |-> <<>>]

\* the body of the try block: decode the record and dispatch it.
\*   hb is what a connected receiver does when it is called: "return"/"raise"
try_block(reg, rec, b, hb) ==
    IF b.kind = "not_json" \/ b.kind = "no_detail" \/ b.kind = "no_type"
    THEN [route |-> "decode_error", raised |-> TRUE, invoked |-> <<>>]
    ELSE LET receivers == reg[b.type_id]
         IN  IF receivers # {}
             THEN [route |-> IF hb = "raise" THEN "handler_raised"
                                             ELSE "handler_returned",
                   raised |-> (hb = "raise"),
                   invoked |-> send(rec, receivers, DetailOf(b))]
             ELSE [route |-> "no_receiver", raised |-> FALSE,
                   invoked |-> <<>>]

\* variants of give_up: off by one, and never giving up
give_up_strict(count) == count > MAX_RECEIVE_COUNT
give_up_never(count) == FALSE

\* the except clause's test: retried too many times, give up the message
give_up(count) == count >= MAX_RECEIVE_COUNT

\* variant of record_handler: a record is reported failed below the
\* threshold even when its receiver returned
record_handler_raises_after_success(reg, rec, b, count, hb) ==
    LET t == try_block(reg, rec, b, hb)
    IN  [route |-> t.route,
         failed |-> t.raised,
         count |-> count,
         invoked |-> t.invoked,
         raised |-> ((t.raised \/ t.invoked # <<>>) /\ ~give_up(count))]

\* variant of record_handler: the except clause never re-raises
record_handler_swallow(reg, rec, b, count, hb) ==
    LET t == try_block(reg, rec, b, hb)
    IN  [route |-> t.route,
         failed |-> t.raised,
         count |-> count,
         invoked |-> t.invoked,
         raised |-> FALSE]

\* record_handler(record): .raised tells whether the call re-raised
record_handler(reg, rec, b, count, hb) ==
    LET t == try_block(reg, rec, b, hb)
    IN  [route |-> t.route,
         failed |-> t.raised,
         count |-> count,
         invoked |-> t.invoked,
         raised |-> (t.raised /\ ~give_up(count))]

NoResult == [route |-> "none", failed |-> FALSE, count |-> 0,
             invoked |-> <<>>, raised |-> FALSE]

\* ------------------------------------------------------------------------
\* BatchProcessor driven by @batch_processor (handler, transformation.py
\* 363-369, sender.py 114-120)
\* ------------------------------------------------------------------------
\* BatchProcessor._process_record: the record's exception is caught and the
\* record goes to fail_messages, otherwise to success_messages
success_handler(succ, rec) == Append(succ, rec)
failure_handler(fails, rec) == Append(fails, rec)

\* variant of record_at: the records are taken from the end of the batch
record_at_reversed(records, i) == records[Len(records) + 1 - i]

\* `for record in records`: the processor takes the records as delivered
record_at(records, i) == records[i]

\* the receiver calls of one record_handler call, each with what the
\* receiver did ("return" / "raise")
with_outcome(invoked, hb) ==
    [k \in 1..Len(invoked) |->
        [record |-> invoked[k].record, receiver |-> invoked[k].receiver,
         detail |-> invoked[k].detail, outcome |-> hb]]

\* variant of next_index: a failing record ends the loop
next_index_abort(i, raised, n) == IF raised THEN n + 1 ELSE i + 1

\* BatchProcessor.process: the loop goes on to the next record whatever
\* the record handler did
next_index(i, raised, n) == i + 1

\* BatchProcessor._clean: batchItemFailures lists the failed records
clean(fails) == fails

\* the elements of a set of records in queue order
RECURSIVE SortedSeq(_)
SortedSeq(S) ==
    IF S = {} THEN <<>>
    ELSE LET m == CHOOSE x \in S : \A y \in S : x <= y
         IN  <<m>> \o SortedSeq(S \ {m})

Range(s) == {s[i] : i \in 1..Len(s)}

\* the visible records of the queue, oldest first
Queued == SortedSeq({r \in Records : status[r] = "queued"})

\* query_rules is not running
RulesIdle ==
    /\ rows = <<>>
    /\ rules = <<>>
    /\ converted = <<>>
    /\ first_result = <<>>
    /\ rpc = "idle"

\* the state of a loaded module no batch has reached yet
DispIdle ==
    /\ proc = "transformation"
    /\ registry = ModuleRegistry(proc)
    /\ body = [r \in Records |-> Body("ok", IndexCompleteId, r)]
    /\ status = [r \in Records |-> "acked"]
    /\ receive_count = [r \in Records |-> 0]
    /\ pc = "idle"
    /\ batch = <<>>
    /\ idx = 1
    /\ success_messages = <<>>
    /\ fail_messages = <<>>
    /\ batch_response = <<>>
    /\ outcome = "none"
    /\ calls = <<>>
    /\ attempted = <<>>
    /\ results = [r \in Records |-> NoResult]
    /\ attempts = [r \in Records |-> 0]
    /\ invocations = [r \in Records |-> 0]
    /\ completed = [r \in Records |-> 0]
    /\ connection = "closed"
    /\ connects = 0

\* query_enabled_destinations is not running
ResolveIdle ==
    /\ destination_configuration = [present |-> FALSE, blocks |-> <<>>]
    /\ kinds = {}
    /\ yielded = <<>>
    /\ lookup_failed = {}
    /\ qpc = "idle"

\* create_summary is not running
TransformIdle ==
    /\ action = "cloud_scan"
    /\ repo = <<>>
    /\ aggregated = [is_none |-> TRUE, rules |-> <<>>]
    /\ query_log = <<>>
    /\ emitted = <<>>
    /\ put_events_calls = <<>>
    /\ failed_destinations = <<>>
    /\ earlier_calls = <<>>
    /\ tpc = "idle"

\* query_rules has not been called
ParamsIdle ==
    /\ arg_filters = [is_none |-> TRUE, other_keys |-> FALSE,
                      entry |-> "absent", severities |-> <<>>]
    /\ local_severities = [is_none |-> TRUE, list |-> <<>>]
    /\ query_params = [task_uids |-> <<>>, severities |-> local_severities,
                       results |-> <<>>]
    /\ fpc = "idle"

\* no SnsSummaryInput message (sender.py): send_sns_summary is not running
NoSnsContent == [sns_topic_arn |-> <<>>, summary |-> [rules |-> 0],
                 extra |-> FALSE]

SendIdle ==
    /\ sns_content = NoSnsContent
    /\ region = ""
    /\ publish_calls = <<>>
    /\ approximate_receive_count = 0
    /\ spc = "idle"

Init ==
    /\ proc \in Procs
    /\ registry = ModuleRegistry(proc)
    /\ body \in {f \in [Records -> UNION {BodiesOf(r) : r \in Records}] :
                    \A r \in Records : f[r] \in BodiesOf(r)}
    /\ status = [r \in Records |-> "queued"]
    /\ receive_count = [r \in Records |-> 0]
    /\ pc = "idle"
    /\ batch = <<>>
    /\ idx = 1
    /\ success_messages = <<>>
    /\ fail_messages = <<>>
    /\ batch_response = <<>>
    /\ outcome = "none"
    /\ calls = <<>>
    /\ attempted = <<>>
    /\ results = [r \in Records |-> NoResult]
    /\ attempts = [r \in Records |-> 0]
    /\ invocations = [r \in Records |-> 0]
    /\ completed = [r \in Records |-> 0]
    /\ connection = "closed"
    /\ connects = 0
    /\ RulesIdle
    /\ ParamsIdle
    /\ SendIdle
    /\ ResolveIdle
    /\ TransformIdle

\* variant of prepare: the lists of the previous invocation are kept
prepare_keeps(lst) == lst

\* BatchProcessor._prepare, on entering the processor's context: the
\* success and failure lists and the response start empty
prepare(lst) == <<>>

\* middleware_db_connect, lines 25-29: db_engine.connect() and
\* connection.begin()
connect(conn) == "open"

\* variant of release: the connection is closed on a normal return only
release_on_return_only(conn, how) == IF how = "raise" THEN conn ELSE "closed"

\* middleware_db_connect, lines 28-30: the with blocks are left, by return
\* or by an exception of the wrapped handler
release(conn, how) == "closed"

\* variant of signal: looking a signal up connects a receiver to it
signal_connects(reg, tid) == [reg EXCEPT ![tid] = @ \cup {"record_handler"}]

\* s = signal(msg_type_id): the named signal, with the receivers connected
\* at load time
signal(reg, tid) == reg

\* The queue transport delivers the k oldest visible records as a batch
\* and counts the delivery; the Lambda runtime calls handler, the middleware
\* opens the database connection, and the processor's context manager
\* resets its lists (_prepare)
Receive(k) ==
    /\ pc = "idle"
    /\ k <= Len(Queued)
    /\ LET b == SubSeq(Queued, 1, k) IN
       /\ \A r \in Range(b) : receive_count[r] < MaxDeliveries
       /\ batch' = b
       /\ status' = [r \in Records |-> IF r \in Range(b) THEN "inflight"
                                       ELSE status[r]]
       /\ receive_count' = [r \in Records |-> IF r \in Range(b)
                                              THEN receive_count[r] + 1
                                              ELSE receive_count[r]]
       /\ idx' = 1
       /\ success_messages' = prepare(success_messages)
       /\ fail_messages' = prepare(fail_messages)
       /\ batch_response' = prepare(batch_response)
       /\ outcome' = "none"
       /\ calls' = <<>>
       /\ attempted' = <<>>
       /\ pc' = "processing"
       /\ results' = [r \in Records |-> NoResult]
       /\ connection' = connect(connection)
       /\ connects' = connects + 1
       /\ UNCHANGED <<proc, registry, body, attempts, invocations, completed>>
       /\ UNCHANGED nonDispVars

\* processor.process() handles the next record of the batch
ProcessRecord(hb) ==
    /\ pc = "processing"
    /\ idx <= Len(batch)
    /\ LET rec == record_at(batch, idx)
           o == record_handler(registry, rec, body[rec],
                               receive_count[rec], hb)
       IN  /\ results' = [results EXCEPT ![rec] = o]
           /\ calls' = calls \o with_outcome(o.invoked, hb)
           /\ attempted' = Append(attempted, rec)
           /\ attempts' = [attempts EXCEPT ![rec] = @ + 1]
           /\ invocations' = [invocations EXCEPT ![rec] = @ + Len(o.invoked)]
           /\ completed' = [completed EXCEPT ![rec] =
                                IF hb = "return" THEN @ + Len(o.invoked)
                                ELSE @]
           /\ registry' = IF body[rec].kind = "ok"
                          THEN signal(registry, body[rec].type_id)
                          ELSE registry
           /\ IF o.raised
              THEN /\ fail_messages' = failure_handler(fail_messages, rec)
                   /\ UNCHANGED success_messages
              ELSE /\ success_messages' = success_handler(success_messages, rec)
                   /\ UNCHANGED fail_messages
           /\ idx' = next_index(idx, o.raised, Len(batch))
    /\ UNCHANGED <<proc, body, status, receive_count, pc, batch,
                   batch_response, outcome, connection, connects>>
    /\ UNCHANGED nonDispVars

\* the context manager exits (_clean) and handler returns
\* processor.response(); when every record failed the processor raises
\* BatchProcessingError instead (unless the installed powertools release
\* reports the failures), and the invocation ends with an error
Finish(how) ==
    /\ pc = "processing"
    /\ idx > Len(batch)
    /\ how = "raise" => Len(fail_messages) = Len(batch)
    /\ outcome' = how
    /\ batch_response' = IF how = "raise" THEN <<>> ELSE clean(fail_messages)
    /\ pc' = "returned"
    /\ connection' = release(connection, how)
    /\ UNCHANGED <<proc, registry, body, status, receive_count, batch, idx,
                   success_messages, fail_messages, calls, attempted,
                   results, attempts, invocations, completed, connects>>
    /\ UNCHANGED nonDispVars

\* the records the transport will deliver again after the invocation
Redelivered ==
    IF outcome = "raise" THEN Range(batch) ELSE Range(batch_response)

\* The transport deletes the acknowledged records and makes the failed
\* ones visible again
Settle ==
    /\ pc = "returned"
    /\ status' = [r \in Records |->
                    IF r \in Range(batch)
                    THEN (IF r \in Redelivered THEN "queued" ELSE "acked")
                    ELSE status[r]]
    /\ pc' = "idle"
    /\ batch' = <<>>
    /\ idx' = 1
    /\ outcome' = "none"
    /\ calls' = <<>>
    /\ attempted' = <<>>
    /\ results' = [r \in Records |-> NoResult]
    /\ connects' = 0
    /\ UNCHANGED <<proc, registry, body, receive_count, success_messages,
                   fail_messages, batch_response, attempts, invocations,
                   completed, connection>>
    /\ UNCHANGED nonDispVars

Next ==
    \/ \E k \in 1..MaxBatch : Receive(k)
    \/ \E hb \in {"return", "raise"} : ProcessRecord(hb)
    \/ \E how \in {"response", "raise"} : Finish(how)
    \/ Settle

Spec == Init /\ [][Next]_vars

\* the runtime runs an invocation to its end and the transport keeps
\* delivering the records that are visible
FairSpec == Spec /\ WF_vars(Next)

\* ------------------------------------------------------------------------
\* One invocation on a single record with any body and any receive count
\* (the transport may have delivered the record any number of times)
\* ------------------------------------------------------------------------
InitRecord ==
    /\ proc \in Procs
    /\ registry = ModuleRegistry(proc)
    /\ \E b \in AllBodiesOf(1) :
          body = [r \in Records |-> IF r = 1 THEN b
                                    ELSE Body("ok", IndexCompleteId, r)]
    /\ status = [r \in Records |-> IF r = 1 THEN "inflight" ELSE "acked"]
    /\ \E c \in 1..MaxCount :
          /\ receive_count = [r \in Records |-> IF r = 1 THEN c ELSE 1]
          /\ attempts = [r \in Records |-> IF r = 1 THEN c - 1 ELSE 1]
          /\ invocations =
                [r \in Records |->
                    IF r # 1 THEN 1
                    ELSE IF body[1].kind = "ok" /\ registry[body[1].type_id] # {}
                    THEN c - 1 ELSE 0]
    /\ completed = [r \in Records |-> IF r = 1 THEN 0 ELSE 1]
    /\ connection = "open"
    /\ connects = 1
    /\ pc = "processing"
    /\ batch = <<1>>
    /\ idx = 1
    /\ success_messages = <<>>
    /\ fail_messages = <<>>
    /\ batch_response = <<>>
    /\ outcome = "none"
    /\ calls = <<>>
    /\ attempted = <<>>
    /\ results = [r \in Records |-> NoResult]
    /\ RulesIdle
    /\ ParamsIdle
    /\ SendIdle
    /\ ResolveIdle
    /\ TransformIdle

NextRecord ==
    \/ \E hb \in {"return", "raise"} : ProcessRecord(hb)
    \/ \E how \in {"response", "raise"} : Finish(how)

SpecRecord == InitRecord /\ [][NextRecord]_vars

\* ------------------------------------------------------------------------
\* Properties of the batch handlers
\* ------------------------------------------------------------------------
RaisedInBatch == {r \in Range(batch) : results[r].raised}

CallsFor(r) == SelectSeq(calls, LAMBDA c : c.record = r)

\* C1: batch fault isolation. The records handed to record_handler are at
\* every moment the batch up to the current position, so one record's
\* exception never stops the later ones and each record is attempted exactly
\* once; when the invocation has ended, the records reported failed (and so
\* delivered again) are exactly those whose record_handler raised.
FaultIsolation ==
    /\ attempted = SubSeq(batch, 1, idx - 1)
    /\ pc = "returned" =>
         /\ attempted = batch
         /\ Redelivered = RaisedInBatch
         /\ outcome = "response" =>
              /\ Range(batch_response) = RaisedInBatch
              /\ Len(batch_response) = Cardinality(RaisedInBatch)

FaultIsolationWitness ==
    /\ pc = "returned"
    /\ Len(batch) = 3
    /\ results[batch[2]].raised
    /\ results[batch[1]].route = "handler_returned"
    /\ results[batch[3]].route = "handler_returned"
    /\ batch_response = <<batch[2]>>

\* C2: retry/poison threshold. A record whose decode or dispatch failed is
\* dropped (record_handler returns, the record is a success) when its own
\* receive count is >= MAX_RECEIVE_COUNT and re-raised (the record is a
\* failure) when its own count is below, whatever the other records of the
\* batch are.
RetryThreshold ==
    \A r \in Range(attempted) :
        results[r].failed =>
            /\ receive_count[r] >= MAX_RECEIVE_COUNT =>
                 /\ ~results[r].raised
                 /\ r \in Range(success_messages)
                 /\ r \notin Range(fail_messages)
            /\ receive_count[r] < MAX_RECEIVE_COUNT =>
                 /\ results[r].raised
                 /\ r \in Range(fail_messages)
                 /\ r \notin Range(success_messages)

RetryThresholdWitness ==
    \E r1, r2 \in Range(attempted) :
        /\ results[r1].failed /\ results[r2].failed
        /\ receive_count[r1] = MAX_RECEIVE_COUNT
        /\ r1 \in Range(success_messages)
        /\ receive_count[r2] < MAX_RECEIVE_COUNT
        /\ r2 \in Range(fail_messages)

AllAcked == \A r \in Records : status[r] = "acked"

\* C3: poison-message eviction. With a transport that delivers failed
\* records again (count + 1, from 1) and never an acknowledged one, no
\* record is handed to record_handler more than MAX_RECEIVE_COUNT times and
\* eventually every record is acknowledged for good.
PoisonEviction ==
    /\ [](\A r \in Records : attempts[r] <= MAX_RECEIVE_COUNT)
    /\ <>[]AllAcked

PoisonEvictionWitness ==
    /\ AllAcked
    /\ \E r \in Records :
          /\ body[r].kind # "ok"
          /\ attempts[r] = MAX_RECEIVE_COUNT
          /\ receive_count[r] = MAX_RECEIVE_COUNT

\* C4: acknowledgement safety. When the invocation has ended, a record of
\* the batch is reported successful (not delivered again) if and only if
\* its receiver returned, or it has no receiver, or its processing failed
\* with its receive count at MAX_RECEIVE_COUNT or more.
AckSafety ==
    pc = "returned" =>
        \A r \in Range(batch) :
            (r \notin Redelivered) <=>
                \/ results[r].route = "handler_returned"
                \/ results[r].route = "no_receiver"
                \/ /\ results[r].failed
                   /\ receive_count[r] >= MAX_RECEIVE_COUNT

AckSafetyWitness ==
    /\ pc = "returned"
    /\ \E r1, r2, r3 \in Range(batch) :
          /\ r1 \notin Redelivered
          /\ results[r1].route = "handler_raised"
          /\ receive_count[r1] >= MAX_RECEIVE_COUNT
          /\ r2 \in Redelivered
          /\ r3 \notin Redelivered
          /\ results[r3].route = "no_receiver"

\* what the module of process p registered at load time
RegisteredReceiver(p) ==
    IF p = "transformation" THEN "create_summary" ELSE "send_sns_summary"

\* C5: dispatch routing. Every well-formed record whose identity has a
\* registered receiver caused exactly one call, of that receiver, with the
\* record's own detail.
DispatchRouting ==
    \A r \in Range(attempted) :
        (body[r].kind = "ok" /\ registry[body[r].type_id] # {}) =>
            /\ Len(CallsFor(r)) = 1
            /\ CallsFor(r)[1].receiver \in registry[body[r].type_id]
            /\ CallsFor(r)[1].receiver = RegisteredReceiver(proc)
            /\ CallsFor(r)[1].detail.msg_type_id = body[r].type_id
            /\ CallsFor(r)[1].detail.content = body[r].content

DispatchRoutingWitness ==
    /\ Len(calls) = 2
    /\ calls[1].record # calls[2].record
    /\ Len(attempted) = 3

\* C6: unroutable message. A well-formed record whose identity has no
\* receiver calls no receiver, does not make record_handler raise and is a
\* success of the batch, at every receive count.
Unroutable ==
    \A r \in Range(attempted) :
        (body[r].kind = "ok" /\ registry[body[r].type_id] = {}) =>
            /\ CallsFor(r) = <<>>
            /\ results[r].route = "no_receiver"
            /\ ~results[r].raised
            /\ r \in Range(success_messages)
            /\ r \notin Range(fail_messages)
            /\ pc = "returned" => (outcome = "response" /\ batch_response = <<>>)

UnroutableWitness ==
    /\ pc = "returned"
    /\ attempted = <<1>>
    /\ body[1].kind = "ok"
    /\ registry[body[1].type_id] = {}
    /\ receive_count[1] > MAX_RECEIVE_COUNT
    /\ batch_response = <<>>

\* position of a record in the batch delivered to the running invocation
PositionInBatch(r) == CHOOSE i \in 1..Len(batch) : batch[i] = r

\* C16: record ordering. Within one invocation the records are handled one
\* at a time in the order delivered, and the receiver calls (with the
\* outbound calls they make) of a record come before those of every later
\* record of the batch.
RecordOrder ==
    /\ attempted = SubSeq(batch, 1, Len(attempted))
    /\ \A k \in 1..Len(calls) : calls[k].record \in Range(attempted)
    /\ \A k, l \in 1..Len(calls) :
          k < l => PositionInBatch(calls[k].record)
                       < PositionInBatch(calls[l].record)

RecordOrderWitness ==
    /\ pc = "returned"
    /\ Len(batch) = 3
    /\ Len(calls) = 2
    /\ calls[1].record = batch[1]
    /\ calls[1].outcome = "raise"
    /\ calls[2].record = batch[3]
    /\ results[batch[2]].route = "decode_error"

\* C18: handler errors propagate. An exception raised by a registered
\* receiver is not swallowed by the dispatch step: record_handler's except
\* clause sees it, so the record is failed below MAX_RECEIVE_COUNT and
\* dropped from it on, and the later records of the batch are still handled.
HandlerErrorsPropagate ==
    \A k \in 1..Len(calls) :
        calls[k].outcome = "raise" =>
            LET r == calls[k].record
            IN  /\ results[r].route = "handler_raised"
                /\ results[r].failed
                /\ results[r].raised <=> receive_count[r] < MAX_RECEIVE_COUNT
                /\ pc = "returned" =>
                      /\ attempted = batch
                      /\ outcome = "response" =>
                            (r \in Range(batch_response)
                                <=> receive_count[r] < MAX_RECEIVE_COUNT)

HandlerErrorsPropagateWitness ==
    /\ pc = "returned"
    /\ outcome = "response"
    /\ Len(batch) = 3
    /\ Len(calls) = 3
    /\ calls[1].outcome = "raise"
    /\ receive_count[batch[1]] = MAX_RECEIVE_COUNT
    /\ calls[2].outcome = "raise"
    /\ receive_count[batch[2]] < MAX_RECEIVE_COUNT
    /\ calls[3].outcome = "return"
    /\ batch_response = <<batch[2]>>

\* C19: decode errors are record-scoped. A record whose body is not JSON,
\* has no detail, or whose detail has no parsable identity calls no
\* receiver and goes through the retry policy (failed below
\* MAX_RECEIVE_COUNT, dropped from it on); the other records of the batch
\* are handled as if it were not there.
DecodeErrorsScoped ==
    /\ \A r \in Range(attempted) :
          body[r].kind # "ok" =>
              /\ CallsFor(r) = <<>>
              /\ results[r].route = "decode_error"
              /\ results[r].raised <=> receive_count[r] < MAX_RECEIVE_COUNT
              /\ (pc = "returned" /\ outcome = "response") =>
                    (r \in Range(batch_response)
                        <=> receive_count[r] < MAX_RECEIVE_COUNT)
    /\ pc = "returned" =>
          \A q \in Range(batch) :
              /\ results[q].route # "none"
              /\ (body[q].kind = "ok" /\ registry[body[q].type_id] # {}) =>
                    Len(CallsFor(q)) = 1
              /\ (body[q].kind = "ok" /\ outcome = "response") =>
                    (q \in Range(batch_response)
                        <=> /\ results[q].route = "handler_raised"
                            /\ receive_count[q] < MAX_RECEIVE_COUNT)

DecodeErrorsScopedWitness ==
    /\ pc = "returned"
    /\ outcome = "response"
    /\ Len(batch) = 3
    /\ body[batch[1]].kind = "not_json"
    /\ receive_count[batch[1]] = MAX_RECEIVE_COUNT
    /\ body[batch[2]].kind = "no_detail"
    /\ receive_count[batch[2]] < MAX_RECEIVE_COUNT
    /\ results[batch[3]].route = "handler_returned"
    /\ batch_response = <<batch[2]>>

\* the record carries an envelope whose identity has a receiver
Routable(r) == body[r].kind = "ok" /\ registry[body[r].type_id] # {}

\* C25 as stated: over all deliveries of a record its envelope is consumed
\* exactly once by the registered receiver, or dropped without any receiver
\* call when none is registered.
ConsumedExactlyOnce ==
    \A r \in Records :
        /\ invocations[r] <= 1
        /\ (body[r].kind = "ok" /\ ~Routable(r)) => invocations[r] = 0

\* C25, amended: the registered receiver is called once per delivery of the
\* record; a receiver call that returns is the last one (the record is
\* acknowledged), so at most one call returns, and a receiver that raises
\* is called again on redelivery, MAX_RECEIVE_COUNT times at most; an
\* envelope without receiver is acknowledged without any call.
EnvelopeLifecycle ==
    \A r \in Records :
        /\ completed[r] <= 1
        /\ completed[r] <= invocations[r]
        /\ invocations[r] <= MAX_RECEIVE_COUNT
        /\ Routable(r) => invocations[r] = attempts[r]
        /\ ~Routable(r) => invocations[r] = 0
        /\ completed[r] = 1 => status[r] \in {"inflight", "acked"}
        /\ (body[r].kind = "ok" /\ ~Routable(r) /\ attempts[r] > 0) =>
              /\ attempts[r] = 1
              /\ status[r] \in {"inflight", "acked"}

EnvelopeLifecycleWitness ==
    /\ pc = "idle"
    /\ \E r1, r2, r3 \in Records :
          /\ status[r1] = "acked" /\ status[r2] = "acked"
          /\ status[r3] = "acked"
          /\ Routable(r1) /\ invocations[r1] = MAX_RECEIVE_COUNT
          /\ completed[r1] = 0
          /\ Routable(r2) /\ invocations[r2] = 2 /\ completed[r2] = 1
          /\ body[r3].kind = "ok" /\ ~Routable(r3) /\ attempts[r3] = 1

\* C26: registry invariant. Every identity has at most one receiver, and
\* the registrations are those made when the module was loaded, whatever
\* batches have been handled.
RegistryInvariant ==
    /\ \A tid \in MsgTypeIds : Cardinality(registry[tid]) <= 1
    /\ registry = ModuleRegistry(proc)

RegistryInvariantWitness ==
    /\ pc = "returned"
    /\ Len(calls) = 2
    /\ \E r \in Range(batch) : attempts[r] = 3
    /\ proc = "sender"
    /\ registry[SnsSummaryInputId] = {"send_sns_summary"}
    /\ registry[PubSubSummaryInputId] = {}

\* C27: session scoping. The connection is opened once per invocation,
\* every record of the batch is handled while it is open, and it is closed
\* when the wrapped handler is left, by return or by exception.
SessionScoping ==
    /\ pc = "processing" => (connection = "open" /\ connects = 1)
    /\ pc = "returned" => (connection = "closed" /\ connects = 1)
    /\ pc = "idle" => (connection = "closed" /\ connects = 0)
    /\ attempted # <<>> => connects = 1

SessionScopingWitness ==
    /\ pc = "returned"
    /\ outcome = "raise"
    /\ Len(attempted) = 2
    /\ connection = "closed"
    /\ \E r \in Range(batch) : attempts[r] = 2

\* C28: batch independence. What an invocation reports depends on its own
\* records only: the success and failure marks of the processor are those
\* of the records handled in this invocation, and the response never lists
\* a record of an earlier batch.
BatchIndependence ==
    /\ pc \in {"processing", "returned"} =>
          /\ Range(success_messages) \cup Range(fail_messages)
                = Range(attempted)
          /\ Len(success_messages) + Len(fail_messages) = Len(attempted)
          /\ Range(fail_messages) = {r \in Range(attempted) : results[r].raised}
    /\ pc = "returned" =>
          /\ Range(batch_response) \subseteq Range(batch)
          /\ outcome = "response" =>
                batch_response = SelectSeq(batch, LAMBDA r : results[r].raised)

BatchIndependenceWitness ==
    /\ pc = "returned"
    /\ outcome = "response"
    /\ batch = <<1>>
    /\ batch_response = <<>>
    /\ status[2] = "queued"
    /\ receive_count[2] = 1
    /\ receive_count[1] = 2

\* ------------------------------------------------------------------------
\* query_rules (transformation.py:91-212): aggregation of the rows
\* ------------------------------------------------------------------------
None == "None"

\* horangi SeverityLevel: the values of the enumeration and their names
SeverityValues == 0..4
SeverityName(v) ==
    CASE v = 0 -> "info" [] v = 1 -> "low" [] v = 2 -> "medium"
      [] v = 3 -> "high" [] v = 4 -> "critical" [] OTHER -> "invalid"

\* SeverityLevel(v) raises ValueError outside the enumeration
SeverityRaises(v) == v \notin SeverityValues

\* tags are (prefix, name) pairs: <<"compliance", "cis">> is "compliance:cis"
ComplianceTag(name) == <<"compliance", name>>
OtherTag(name) == <<"owner", name>>

Row(title, severity, default_severity, gid, tags) ==
    [title |-> title, severity |-> severity,
     default_severity |-> default_severity, resource_gid |-> gid,
     resource_region |-> "ap-southeast-1",
     params |-> [service |-> "s3",
                 region |-> IF gid = "" THEN "us-east-1" ELSE "global"],
     note |-> None, tags |-> tags]

\* `if row.resource_gid:` an absent or empty gid is falsy
Truthy(gid) == gid # None /\ gid # ""

\* variant of build_resource: the service branch passes the row's gid on
build_resource_keeps_gid(row) ==
    [is_service |-> ~Truthy(row.resource_gid),
     region |-> IF Truthy(row.resource_gid) THEN row.resource_region
                ELSE row.params.region,
     service |-> row.params.service,
     severity |-> SeverityName(row.severity),
     gid |-> row.resource_gid, note |-> row.note]

\* lines 175-191: the Entity of a row (SeverityLevel(row.severity) checked
\* by the caller)
build_resource(row) ==
    IF Truthy(row.resource_gid)
    THEN [is_service |-> FALSE, region |-> row.resource_region,
          service |-> row.params.service,
          severity |-> SeverityName(row.severity),
          gid |-> row.resource_gid, note |-> row.note]
    ELSE [is_service |-> TRUE, region |-> row.params.region,
          service |-> row.params.service,
          severity |-> SeverityName(row.severity),
          gid |-> None, note |-> row.note]

\* variant of compliance_tags: the row's tags are taken as they are
compliance_tags_unfiltered(tags) == tags

\* lines 193-196: only compliance tags
compliance_tags(tags) == SelectSeq(tags, LAMBDA t : t[1] = "compliance")

\* rules.get(title): position of the title's group, 0 when absent
RECURSIVE IndexOfTitle(_, _)
IndexOfTitle(rs, title) ==
    IF rs = <<>> THEN 0
    ELSE IF rs[Len(rs)].rule = title /\ IndexOfTitle(SubSeq(rs, 1, Len(rs) - 1), title) = 0
         THEN Len(rs)
         ELSE IndexOfTitle(SubSeq(rs, 1, Len(rs) - 1), title)

\* does the try block of the loop body raise on this row
row_raises(rs, row) ==
    \/ SeverityRaises(row.severity)
    \/ /\ IndexOfTitle(rs, row.title) = 0
       /\ SeverityRaises(row.default_severity)

\* variant of append_resource: the new resource goes to the front
append_resource_front(resources, resource) == <<resource>> \o resources

\* line 207: aggregated.resources.append(resource)
append_resource(resources, resource) == Append(resources, resource)

\* variant of aggregate_row: a row that raises ends the loop and the
\* groups built so far are lost
aggregate_row_abort(rs, row) ==
    IF row_raises(rs, row) THEN <<>>
    ELSE LET i == IndexOfTitle(rs, row.title)
         IN  IF i = 0
             THEN Append(rs, [rule |-> row.title,
                              default_severity |->
                                  SeverityName(row.default_severity),
                              resources |-> <<build_resource(row)>>,
                              tags |-> compliance_tags(row.tags)])
             ELSE [rs EXCEPT ![i].resources =
                                 append_resource(@, build_resource(row))]

\* variant of aggregate_row: a known title gets a second group
aggregate_row_no_lookup(rs, row) ==
    IF row_raises(rs, row) THEN rs
    ELSE Append(rs, [rule |-> row.title,
                     default_severity |-> SeverityName(row.default_severity),
                     resources |-> <<build_resource(row)>>,
                     tags |-> compliance_tags(row.tags)])

\* variant of aggregate_row: a later row of a title also replaces the
\* group's default severity and tags
aggregate_row_overwrite(rs, row) ==
    IF SeverityRaises(row.severity) \/ SeverityRaises(row.default_severity)
    THEN rs
    ELSE LET i == IndexOfTitle(rs, row.title)
             group == [rule |-> row.title,
                       default_severity |->
                           SeverityName(row.default_severity),
                       resources |-> <<build_resource(row)>>,
                       tags |-> compliance_tags(row.tags)]
         IN  IF i = 0 THEN Append(rs, group)
             ELSE [rs EXCEPT ![i] =
                      [group EXCEPT !.resources =
                          append_resource(rs[i].resources,
                                          build_resource(row))]]

\* lines 174-210: one iteration of the loop over the rows
aggregate_row(rs, row) ==
    IF row_raises(rs, row) THEN rs
    ELSE LET i == IndexOfTitle(rs, row.title)
         IN  IF i = 0
             THEN Append(rs, [rule |-> row.title,
                              default_severity |->
                                  SeverityName(row.default_severity),
                              resources |-> <<build_resource(row)>>,
                              tags |-> compliance_tags(row.tags)])
             ELSE [rs EXCEPT ![i].resources =
                                 append_resource(@, build_resource(row))]

\* the loop of query_rules over the rows of the query
RECURSIVE aggregate_rows(_, _)
aggregate_rows(rs, rws) ==
    IF rws = <<>> THEN rs
    ELSE aggregate_rows(aggregate_row(rs, Head(rws)), Tail(rws))

\* variant of fresh_rules: the dict of the previous call is kept
stale_rules(previous) == previous

\* line 172: rules = dict(), whatever an earlier call left behind
fresh_rules(previous) == <<>>

\* the rows the query may return for a task
Titles == {"S3 bucket public", "IAM key rotation"}
Gids == {None, "", "r1"}
TagLists == {<<ComplianceTag("cis"), OtherTag("team")>>,
             <<ComplianceTag("pci")>>}
RowSpace ==
    {Row(t, 4, 2, g, tg) : t \in Titles, g \in Gids, tg \in TagLists}
    \cup {Row(t, 9, 2, g, <<ComplianceTag("pci")>>) : t \in Titles, g \in Gids}
    \cup {Row(t, 4, 9, g, <<ComplianceTag("pci")>>) : t \in Titles, g \in Gids}
    \cup {Row(t, 2, 3, "r2", <<ComplianceTag("pci")>>) : t \in Titles}

\* query_rules starts: rules = dict()
InitRules ==
    /\ DispIdle
    /\ ParamsIdle
    /\ SendIdle
    /\ rows = <<>>
    /\ rules = fresh_rules(<<>>)
    /\ converted = <<>>
    /\ first_result = <<>>
    /\ rpc = "loop"
    /\ ResolveIdle
    /\ TransformIdle

\* `for row in rows`: the query hands over its next row
FetchRow(row) ==
    /\ rpc = "loop"
    /\ Len(rows) < MaxRows
    /\ rows' = Append(rows, row)
    /\ converted' = Append(converted, ~row_raises(rules, row))
    /\ rules' = aggregate_row(rules, row)
    /\ UNCHANGED <<first_result, rpc>>
    /\ UNCHANGED <<dispVars, paramVars, sendVars, resolveVars, transformVars>>

\* the rows are exhausted: return list(rules.values())
ReturnRules ==
    /\ rpc = "loop"
    /\ rpc' = "returned"
    /\ UNCHANGED <<rows, rules, converted, first_result>>
    /\ UNCHANGED <<dispVars, paramVars, sendVars, resolveVars, transformVars>>

\* query_rules is called again (the record is retried) and the query
\* returns the same rows: the whole call, from rules = dict() to the return
Reinvoke ==
    /\ rpc = "returned"
    /\ first_result' = rules
    /\ rules' = aggregate_rows(fresh_rules(rules), rows)
    /\ rpc' = "returned_again"
    /\ UNCHANGED <<rows, converted>>
    /\ UNCHANGED <<dispVars, paramVars, sendVars, resolveVars, transformVars>>

NextRules ==
    \/ \E row \in RowSpace : FetchRow(row)
    \/ ReturnRules
    \/ Reinvoke

SpecRules == InitRules /\ [][NextRules]_vars

\* the titles of the rows, each once, in order of first occurrence
RECURSIVE Distinct(_)
Distinct(ts) ==
    IF ts = <<>> THEN <<>>
    ELSE LET front == Distinct(SubSeq(ts, 1, Len(ts) - 1))
             t == ts[Len(ts)]
         IN  IF \E i \in 1..Len(front) : front[i] = t THEN front
             ELSE Append(front, t)

ConvertedTitles ==
    LET idxs == SelectSeq([i \in 1..Len(rows) |-> i],
                          LAMBDA i : converted[i])
    IN  [k \in 1..Len(idxs) |-> rows[idxs[k]].title]

\* C10: the groups of query_rules are one per distinct title among the
\* rows that converted without error, in the order in which these titles
\* first occur among those rows, and no title occurs twice.
OneGroupPerTitle ==
    /\ [i \in 1..Len(rules) |-> rules[i].rule] = Distinct(ConvertedTitles)
    /\ \A i, j \in 1..Len(rules) : rules[i].rule = rules[j].rule => i = j

OneGroupPerTitleWitness ==
    /\ rpc = "returned"
    /\ Len(rows) = 3
    /\ Len(rules) = 2
    /\ rules[1].rule = "S3 bucket public"
    /\ Len(rules[1].resources) = 2
    /\ rules[1].resources[1].gid = "r1"
    /\ rules[2].rule = "IAM key rotation"
    /\ rules[2].resources[1].is_service

\* the rows whose try block ended without error, in arrival order
ConvertedRows ==
    LET idxs == SelectSeq([i \in 1..Len(rows) |-> i],
                          LAMBDA i : converted[i])
    IN  [k \in 1..Len(idxs) |-> rows[idxs[k]]]

\* the entities of the converted rows of a title, in arrival order
EntitiesOfTitle(title) ==
    LET mine == SelectSeq(ConvertedRows, LAMBDA row : row.title = title)
    IN  [k \in 1..Len(mine) |-> build_resource(mine[k])]

RECURSIVE TotalResources(_)
TotalResources(rs) ==
    IF rs = <<>> THEN 0
    ELSE Len(Head(rs).resources) + TotalResources(Tail(rs))

\* C11: in each group of query_rules the resources are the entities of the
\* error-free rows of that title in row arrival order, and the groups hold
\* as many resources in total as there are rows that converted without
\* error (none dropped, none duplicated).
ArrivalOrder ==
    /\ \A i \in 1..Len(rules) :
           rules[i].resources = EntitiesOfTitle(rules[i].rule)
    /\ TotalResources(rules) = Len(ConvertedRows)

ArrivalOrderWitness ==
    /\ rpc = "returned"
    /\ Len(rows) = 3
    /\ converted = <<TRUE, TRUE, TRUE>>
    /\ Len(rules) = 1
    /\ Len(rules[1].resources) = 3
    /\ rules[1].resources[1].is_service
    /\ rules[1].resources[2].gid = "r1"
    /\ rules[1].resources[3].is_service
    /\ rules[1].resources[3].region # rules[1].resources[1].region

\* C12: a row whose conversion raises adds no group and no resource, the
\* loop goes on with the next row, and the groups are those of aggregating
\* the same rows with the failing ones removed.
RowErrorIsolation ==
    /\ Len(converted) = Len(rows)
    /\ rules = aggregate_rows(<<>>, ConvertedRows)
    /\ TotalResources(rules) <= Len(ConvertedRows)

RowErrorIsolationWitness ==
    /\ rpc = "returned"
    /\ Len(rows) = 3
    /\ converted = <<TRUE, FALSE, TRUE>>
    /\ SeverityRaises(rows[2].severity)
    /\ Len(rules) = 2
    /\ rules[2].rule = rows[3].title

\* C13: every entity of every group has is_service exactly when its gid
\* is absent, also for rows whose gid is the empty string.
EntityInvariant ==
    \A i \in 1..Len(rules) : \A k \in 1..Len(rules[i].resources) :
        rules[i].resources[k].is_service
            <=> (rules[i].resources[k].gid = None)

EntityInvariantWitness ==
    /\ rpc = "returned"
    /\ Len(rows) = 2
    /\ rows[1].resource_gid = ""
    /\ rows[2].resource_gid = "r1"
    /\ Len(rules) = 1
    /\ Len(rules[1].resources) = 2
    /\ rules[1].resources[1].is_service
    /\ rules[1].resources[1].gid = None
    /\ ~rules[1].resources[2].is_service

ResourceUniqueness ==
    \A i \in 1..Len(rules) : \A k, l \in 1..Len(rules[i].resources) :
        LET a == rules[i].resources[k]
            b == rules[i].resources[l]
        IN  (/\ a.is_service = b.is_service
             /\ IF a.is_service
                THEN a.region = b.region /\ a.service = b.service
                ELSE a.gid = b.gid)
            => k = l

\* the first fetched row of the title whose try block ended without error
FirstConverted(title) ==
    LET ks == {k \in 1..Len(rows) : rows[k].title = title /\ converted[k]}
    IN  CHOOSE k \in ks : \A j \in ks : k <= j

\* C36: a group's title, default_severity and tags are those of the first
\* converted row of its title; a later row of the title only appends one
\* entity to the group's resources, and no row changes another group.
GroupFieldsFixed ==
    /\ [](\A i \in 1..Len(rules) :
            LET first == rows[FirstConverted(rules[i].rule)]
            IN  /\ rules[i].default_severity =
                      SeverityName(first.default_severity)
                /\ rules[i].tags = compliance_tags(first.tags))
    /\ [][(rpc = "loop" /\ rpc' = "loop") =>
            LET row == rows'[Len(rows')]
            IN  /\ Len(rules') >= Len(rules)
                /\ \A i \in 1..Len(rules) :
                      /\ rules'[i].rule = rules[i].rule
                      /\ rules'[i].default_severity =
                            rules[i].default_severity
                      /\ rules'[i].tags = rules[i].tags
                      /\ \/ rules'[i].resources = rules[i].resources
                         \/ /\ rules[i].rule = row.title
                            /\ Len(rules') = Len(rules)
                            /\ rules'[i].resources =
                                  Append(rules[i].resources,
                                         build_resource(row))]_vars

GroupFieldsFixedWitness ==
    /\ rpc = "returned"
    /\ Len(rows) = 3
    /\ Len(rules) = 2
    /\ rows[1].title = rows[3].title
    /\ rows[1].default_severity # rows[3].default_severity
    /\ ~SeverityRaises(rows[3].default_severity)
    /\ rows[1].tags # rows[3].tags
    /\ converted = <<TRUE, TRUE, TRUE>>
    /\ Len(rules[1].resources) = 2
    /\ rules[1].tags = compliance_tags(rows[1].tags)

\* C30: every tag of every group starts with "compliance:"; a row's other
\* tags never reach the output.
OnlyComplianceTags ==
    \A i \in 1..Len(rules) : \A k \in 1..Len(rules[i].tags) :
        /\ rules[i].tags[k][1] = "compliance"
        /\ rules[i].tags[k] # OtherTag("team")

OnlyComplianceTagsWitness ==
    /\ rpc = "returned"
    /\ Len(rows) = 1
    /\ rows[1].tags = <<ComplianceTag("cis"), OtherTag("team")>>
    /\ Len(rules) = 1
    /\ rules[1].tags = <<ComplianceTag("cis")>>

\* ------------------------------------------------------------------------
\* query_enabled_destinations (util/query.py:14-61)
\* ------------------------------------------------------------------------
NoUid == "missing"
NoDestination == [uid |-> "none", destination_type |-> "none",
                  address |-> "none", has_credentials |-> FALSE]

\* the Destination table of the database
Destinations ==
    {[uid |-> "d_sns", destination_type |-> "aws_sns",
      address |-> "arn:aws:sns:us-east-1:1:topic", has_credentials |-> FALSE],
     [uid |-> "d_pubsub", destination_type |-> "pubsub",
      address |-> "project/topic", has_credentials |-> TRUE],
     [uid |-> "d_sns2", destination_type |-> "aws_sns",
      address |-> "arn:aws:sns:eu-west-1:1:topic", has_credentials |-> FALSE],
     [uid |-> "d_pubsub_nocred", destination_type |-> "pubsub",
      address |-> "project/topic2", has_credentials |-> FALSE],
     [uid |-> "d_slack", destination_type |-> "slack",
      address |-> "channel", has_credentials |-> FALSE]}

\* filters of a configuration block: {} or {"severities": [...]}
Filters(sevs) ==
    [is_none |-> FALSE, other_keys |-> FALSE,
     entry |-> IF sevs = <<>> THEN "absent" ELSE "list",
     severities |-> sevs]

\* a raw block of destination_configuration; is_enabled may be left out
Block(uid, enabled, filters) ==
    [destination_uid |-> uid, is_enabled |-> enabled, filters |-> filters]

\* DestinationConfiguration.valid_filters: SeverityLevel(s) for each value
valid_filters_raises(filters) ==
    \E i \in 1..Len(filters.severities) :
        SeverityRaises(filters.severities[i])

\* DestinationConfiguration.parse_obj(dc): destination_uid is required,
\* is_enabled defaults to True
parse_obj_raises(dc) ==
    dc.destination_uid = NoUid \/ valid_filters_raises(dc.filters)

parse_obj(dc) ==
    [destination_uid |-> dc.destination_uid,
     is_enabled |-> (dc.is_enabled # "false"),
     filters |-> dc.filters]

\* variant of find_destination: the kinds are not applied
find_destination_any_kind(uid, types) ==
    IF \E d \in Destinations : d.uid = uid
    THEN CHOOSE d \in Destinations : d.uid = uid
    ELSE NoDestination

\* lines 44-52: the Destination with the uid, of one of the kinds when
\* kinds are given; one_or_none()
find_destination(uid, types) ==
    LET found == {d \in Destinations :
                    /\ d.uid = uid
                    /\ (types = {} \/ d.destination_type \in types)}
    IN  IF found = {} THEN NoDestination ELSE CHOOSE d \in found : TRUE

\* variant of resolve_block: is_enabled is not consulted
resolve_block_enabled_ignored(dc, types, lookup_raises) ==
    IF parse_obj_raises(dc) THEN [yield |-> FALSE, why |-> "parse_error"]
    ELSE LET config == parse_obj(dc)
             destination == find_destination(config.destination_uid, types)
         IN  IF lookup_raises
             THEN [yield |-> FALSE, why |-> "lookup_error"]
             ELSE IF destination = NoDestination
             THEN [yield |-> FALSE, why |-> "no_destination"]
             ELSE [yield |-> TRUE, why |-> "yield", config |-> config,
                   destination |-> destination]

\* lines 36-61: the loop body for one block; lookup_raises says whether the
\* database query raises
resolve_block(dc, types, lookup_raises) ==
    IF parse_obj_raises(dc) THEN [yield |-> FALSE, why |-> "parse_error"]
    ELSE LET config == parse_obj(dc)
             destination == find_destination(config.destination_uid, types)
         IN  IF ~config.is_enabled
             THEN [yield |-> FALSE, why |-> "disabled"]
             ELSE IF lookup_raises
             THEN [yield |-> FALSE, why |-> "lookup_error"]
             ELSE IF destination = NoDestination
             THEN [yield |-> FALSE, why |-> "no_destination"]
             ELSE [yield |-> TRUE, why |-> "yield", config |-> config,
                   destination |-> destination]

\* the configuration blocks and kinds the resolver is run on: every uid
\* enabled and disabled, and d_sns also with is_enabled left out, with a
\* severities filter, and with an invalid severities filter
ResolveUids == {"d_sns", "d_pubsub", "d_slack", "d_gone", NoUid}
BlockSpace ==
    {Block(u, e, Filters(<<>>)) : u \in ResolveUids, e \in {"true", "false"}}
    \cup {Block("d_sns", "absent", Filters(<<>>)),
          Block("d_sns", "true", Filters(<<4, 3>>)),
          Block("d_sns", "true", Filters(<<9>>)),
          Block("d_sns", "false", Filters(<<9>>))}
KindsSpace == {{}, {"aws_sns"}, {"aws_sns", "pubsub"}}

InitResolve ==
    /\ DispIdle
    /\ ParamsIdle
    /\ SendIdle
    /\ RulesIdle
    /\ destination_configuration \in
          {[present |-> p, blocks |-> <<>>] : p \in BOOLEAN}
    /\ kinds \in KindsSpace
    /\ yielded = <<>>
    /\ lookup_failed = {}
    /\ qpc = "loop"
    /\ TransformIdle

\* lines 32-34 and the end of the for loop: nothing (more) to iterate
ResolveReturn ==
    /\ qpc = "loop"
    /\ qpc' = "done"
    /\ UNCHANGED <<destination_configuration, kinds, yielded, lookup_failed>>
    /\ UNCHANGED <<dispVars, paramVars, sendVars, rulesVars, transformVars>>

\* variant of after_block_error: the exception leaves the generator
after_block_error_propagates(q) == "raised"

\* lines 58-61: except Exception: log and continue with the next block
after_block_error(q) == q

\* where the generator is after the loop body of a block
after_block(q, o) ==
    IF o.why \in {"parse_error", "lookup_error"} THEN after_block_error(q)
    ELSE q

\* the for loop takes the next block of the list
ResolveBlock(dc, lookup_raises) ==
    /\ qpc = "loop"
    /\ destination_configuration.present
    /\ Len(destination_configuration.blocks) < MaxConfigs
    /\ LET pos == Len(destination_configuration.blocks) + 1
           o == resolve_block(dc, kinds, lookup_raises)
       IN  /\ destination_configuration' =
                 [destination_configuration EXCEPT !.blocks = Append(@, dc)]
           /\ yielded' = IF o.yield
                         THEN Append(yielded, [pos |-> pos,
                                               config |-> o.config,
                                               destination |-> o.destination])
                         ELSE yielded
           /\ lookup_failed' = IF o.why = "lookup_error"
                               THEN lookup_failed \cup {pos}
                               ELSE lookup_failed
           /\ qpc' = after_block(qpc, o)
    /\ UNCHANGED kinds
    /\ UNCHANGED <<dispVars, paramVars, sendVars, rulesVars, transformVars>>

NextResolve ==
    \/ \E dc \in BlockSpace, e \in BOOLEAN : ResolveBlock(dc, e)
    \/ ResolveReturn

SpecResolve == InitResolve /\ [][NextResolve]_vars

\* C8: a block with is_enabled = false is never among the yielded pairs.
DisabledNeverYielded ==
    \A i \in 1..Len(yielded) :
        /\ destination_configuration.blocks[yielded[i].pos].is_enabled
              # "false"
        /\ yielded[i].config.is_enabled

DisabledNeverYieldedWitness ==
    /\ qpc = "done"
    /\ Len(yielded) = 1
    /\ \E i \in 1..Len(destination_configuration.blocks) :
          LET dc == destination_configuration.blocks[i]
          IN  /\ dc.is_enabled = "false"
              /\ ~parse_obj_raises(dc)
              /\ i \notin lookup_failed
              /\ \E d \in Destinations :
                    /\ d.uid = dc.destination_uid
                    /\ d.destination_type \in kinds

\* the blocks that parse, are enabled and name an existing destination of
\* a requested kind (any kind when none is requested)
Eligible(i) ==
    LET dc == destination_configuration.blocks[i]
    IN  /\ dc.destination_uid # NoUid
        /\ \A k \in 1..Len(dc.filters.severities) :
              dc.filters.severities[k] \in SeverityValues
        /\ dc.is_enabled \in {"true", "absent"}
        /\ i \notin lookup_failed
        /\ \E d \in Destinations :
              /\ d.uid = dc.destination_uid
              /\ (kinds = {} \/ d.destination_type \in kinds)

\* C9: the pairs yielded are, in list order, exactly those of the eligible
\* blocks, each with the block's own configuration and the destination the
\* block names; nothing is yielded for an empty or absent list.
ResolveExact ==
    LET n == Len(destination_configuration.blocks)
        want == SelectSeq([i \in 1..n |-> i], Eligible)
    IN  /\ [k \in 1..Len(yielded) |-> yielded[k].pos] = want
        /\ \A k \in 1..Len(yielded) :
              LET dc == destination_configuration.blocks[yielded[k].pos]
              IN  /\ yielded[k].config.destination_uid = dc.destination_uid
                  /\ yielded[k].config.filters = dc.filters
                  /\ yielded[k].destination \in Destinations
                  /\ yielded[k].destination.uid = dc.destination_uid
        /\ (~destination_configuration.present \/ n = 0) => yielded = <<>>

ResolveExactWitness ==
    /\ qpc = "done"
    /\ Len(destination_configuration.blocks) = 3
    /\ kinds = {"aws_sns", "pubsub"}
    /\ Len(yielded) = 2
    /\ yielded[1].pos = 1
    /\ yielded[1].destination.uid = "d_pubsub"
    /\ yielded[2].pos = 3
    /\ yielded[2].destination.uid = "d_sns"
    /\ destination_configuration.blocks[2].destination_uid = "d_slack"
    /\ destination_configuration.blocks[2].is_enabled = "true"

\* the positions of the blocks that were yielded
YieldedPositions == {yielded[k].pos : k \in 1..Len(yielded)}

\* the block failed to parse or its destination query raised
BlockFailed(i) ==
    \/ parse_obj_raises(destination_configuration.blocks[i])
    \/ i \in lookup_failed

\* C22: resolver fault isolation. A block that fails to parse (no
\* destination_uid, a severity outside the enumeration) or whose destination
\* query raises is skipped, the generator does not end with an exception,
\* and every later block is still evaluated and yielded when eligible.
ResolverIsolation ==
    LET n == Len(destination_configuration.blocks)
    IN  /\ qpc # "raised"
        /\ \A i \in 1..n : BlockFailed(i) => i \notin YieldedPositions
        /\ \A i, j \in 1..n :
              (i < j /\ BlockFailed(i) /\ Eligible(j))
                  => j \in YieldedPositions

ResolverIsolationWitness ==
    /\ qpc = "done"
    /\ Len(destination_configuration.blocks) = 3
    /\ destination_configuration.blocks[1].destination_uid = NoUid
    /\ destination_configuration.blocks[2].destination_uid = "d_sns"
    /\ valid_filters_raises(destination_configuration.blocks[2].filters)
    /\ lookup_failed = {}
    /\ Len(yielded) = 1
    /\ yielded[1].pos = 3

\* ------------------------------------------------------------------------
\* transform_message and create_summary (transformation.py:215-329)
\* ------------------------------------------------------------------------
\* variant of severities_argument: an empty list is passed on as the
\* restriction
severities_argument_keeps_empty(f) ==
    IF ~f.is_none /\ f.entry = "list"
    THEN [is_none |-> FALSE, list |-> f.severities]
    ELSE [is_none |-> TRUE, list |-> <<>>]

\* lines 109-112: the severities handed to the query, None without a filter
\*   `filters and filters.get("severities")`: None and {} are falsy, a
\*   missing key gives None, and None and [] are falsy
severities_argument(f) ==
    LET filters_truthy ==
            ~f.is_none /\ (f.other_keys \/ f.entry # "absent")
        got_truthy == f.entry = "list" /\ f.severities # <<>>
    IN  IF filters_truthy /\ got_truthy
        THEN [is_none |-> FALSE, list |-> f.severities]
        ELSE [is_none |-> TRUE, list |-> <<>>]

\* the query: the task's failed checks, of the given severities when the
\* argument is not None
query_rows(db, severities) ==
    IF severities.is_none THEN db
    ELSE SelectSeq(db, LAMBDA row :
                         \E i \in 1..Len(severities.list) :
                             severities.list[i] = row.severity)

\* query_rules(org_uid, task_uid, filters)
query_rules(db, filters) ==
    aggregate_rows(<<>>, query_rows(db, severities_argument(filters)))

\* ------------------------------------------------------------------------
\* query_rules: from the argument filters to the parameters of the query
\* ------------------------------------------------------------------------
\* the values filters can have: None, {}, a dict without "severities", with
\* "severities": None, and with "severities": a list (empty or not), each
\* dict with or without other keys
SeverityLists ==
    UNION {[1..n -> SeverityValues] : n \in 0..MaxSevs}

FilterForms ==
    {[is_none |-> TRUE, other_keys |-> FALSE, entry |-> "absent",
      severities |-> <<>>]}
    \cup {[is_none |-> FALSE, other_keys |-> o, entry |-> e,
           severities |-> <<>>] : o \in BOOLEAN, e \in {"absent", "none"}}
    \cup {[is_none |-> FALSE, other_keys |-> o, entry |-> "list",
           severities |-> l] : o \in BOOLEAN, l \in SeverityLists}

\* query_rules(org_uid, task_uid, filters) is called
InitQuery ==
    /\ DispIdle
    /\ RulesIdle
    /\ ResolveIdle
    /\ TransformIdle
    /\ SendIdle
    /\ arg_filters \in FilterForms
    /\ local_severities = [is_none |-> TRUE, list |-> <<>>]
    /\ query_params = [task_uids |-> <<>>, severities |-> local_severities,
                       results |-> <<>>]
    /\ fpc = "called"

\* lines 109-112: the local severities
ComputeSeverities ==
    /\ fpc = "called"
    /\ local_severities' = severities_argument(arg_filters)
    /\ fpc' = "computed"
    /\ UNCHANGED <<arg_filters, query_params>>
    /\ UNCHANGED <<dispVars, rulesVars, resolveVars, transformVars, sendVars>>

\* lines 138-152: query_filtered_checks(..., severities=severities, ...)
\* and .params(..., severities=severities, ...)
BuildQuery ==
    /\ fpc = "computed"
    /\ query_params' = [task_uids |-> <<"task_uid">>,
                        severities |-> local_severities,
                        results |-> <<"fail">>]
    /\ fpc' = "queried"
    /\ UNCHANGED <<arg_filters, local_severities>>
    /\ UNCHANGED <<dispVars, rulesVars, resolveVars, transformVars, sendVars>>

NextQuery ==
    \/ ComputeSeverities
    \/ BuildQuery

SpecQuery == InitQuery /\ [][NextQuery]_vars

\* C15: severity-filter parameterization. When filters.severities is a
\* non-empty list the query is restricted to exactly that list; when
\* filters is absent or empty, or has no severities entry or an empty one,
\* the query gets no severity restriction.
SeverityParameter ==
    fpc = "queried" =>
        IF /\ ~arg_filters.is_none
           /\ arg_filters.entry = "list"
           /\ arg_filters.severities # <<>>
        THEN /\ ~query_params.severities.is_none
             /\ query_params.severities.list = arg_filters.severities
        ELSE query_params.severities.is_none

SeverityParameterWitness ==
    /\ fpc = "queried"
    /\ arg_filters.entry = "list"
    /\ arg_filters.severities = <<2, 3>>
    /\ query_params.severities.list = <<2, 3>>
    /\ query_params.results = <<"fail">>

\* lines 244-274: does building the content for the destination raise
\* (no credentials in a pubsub destination's meta, unsupported type)
build_content_raises(destination) ==
    \/ destination.destination_type \notin {"aws_sns", "pubsub"}
    \/ /\ destination.destination_type = "pubsub"
       /\ ~destination.has_credentials

\* variant of get_msg_type_id: every content is tagged as an SNS input
get_msg_type_id_sns_only(destination) == SnsSummaryInputId

\* content.get_msg_type_id()
get_msg_type_id(destination) ==
    IF destination.destination_type = "aws_sns" THEN SnsSummaryInputId
    ELSE PubSubSummaryInputId

\* lines 244-284: the message for a destination
build_message(pos, destination, rs) ==
    [pos |-> pos,
     msg_type |-> get_msg_type_id(destination)[1],
     version |-> get_msg_type_id(destination)[2],
     content |-> [destination_uid |-> destination.uid,
                  address |-> destination.address,
                  rules |-> rs],
     msg_attrs |-> [route |-> "ready_to_send"]]

\* variant of TransformKinds: no kinds are given to the resolver
TransformKindsNone == {}

\* the kinds transform_message asks the resolver for
TransformKinds == {"aws_sns", "pubsub"}

\* the action groups and tasks create_summary is run on
TransformFilters == {Filters(<<>>), Filters(<<4>>), Filters(<<1>>)}
TransformBlockSpace ==
    {Block(u, "true", f) :
        u \in {"d_sns", "d_sns2", "d_pubsub", "d_pubsub_nocred"},
        f \in TransformFilters}
    \cup {Block("d_sns", "false", Filters(<<>>)),
          Block("d_slack", "true", Filters(<<>>))}
RepoSpace ==
    {<<>>,
     <<Row("S3 bucket public", 1, 2, "r1", <<ComplianceTag("cis")>>),
       Row("S3 bucket public", 4, 2, "r2", <<ComplianceTag("cis")>>),
       Row("IAM key rotation", 4, 3, None, <<OtherTag("team")>>)>>}

InitTransform ==
    /\ DispIdle
    /\ ParamsIdle
    /\ SendIdle
    /\ RulesIdle
    /\ action \in {"missing", "cloud_scan", "asset_discovery"}
    /\ repo \in RepoSpace
    /\ aggregated = [is_none |-> TRUE, rules |-> <<>>]
    /\ query_log = <<>>
    /\ emitted = <<>>
    /\ put_events_calls = <<>>
    /\ failed_destinations = <<>>
    /\ earlier_calls = <<>>
    /\ tpc = "start"
    /\ destination_configuration = [present |-> TRUE, blocks |-> <<>>]
    /\ kinds = TransformKinds
    /\ yielded = <<>>
    /\ lookup_failed = {}
    /\ qpc = "idle"

\* variant of is_cloud_scan: every action goes on to the destinations
is_cloud_scan_any(a) == TRUE

\* line 230: action.action_type is ActionType.cloud_scan
is_cloud_scan(a) == a = "cloud_scan"

\* lines 227-236: the action is loaded; only cloud_scan actions go on to
\* the destinations (a missing action makes the handler raise)
TransformStart ==
    /\ tpc = "start"
    /\ tpc' = IF action = "missing" THEN "raised" ELSE "loop"
    /\ qpc' = IF action # "missing" /\ is_cloud_scan(action) THEN "loop"
              ELSE "done"
    /\ UNCHANGED <<action, repo, aggregated, query_log, emitted,
                   put_events_calls, failed_destinations, earlier_calls>>
    /\ UNCHANGED <<destination_configuration, kinds, yielded, lookup_failed>>
    /\ UNCHANGED <<dispVars, paramVars, sendVars, rulesVars>>

\* variant of needs_query: every destination queries again
needs_query_always(agg) == TRUE

\* variant of needs_query: `if not aggregated`, an empty result is queried
\* again
needs_query_if_falsy(agg) == agg.is_none \/ agg.rules = <<>>

\* line 242: if aggregated is None
needs_query(agg) == agg.is_none

\* variant of after_destination_error: the exception leaves
\* transform_message
after_destination_error_propagates(t) == "raised"

\* lines 286-290: except Exception: log and continue with the next
\* destination
after_destination_error(t) == t

\* lines 237-290: the resolver takes the next block; when it yields, the
\* loop body runs for the pair.  query_raises: the query of query_rules
\* raises when it is called
TransformBlock(dc, lookup_raises, query_raises) ==
    /\ tpc = "loop"
    /\ qpc = "loop"
    /\ Len(destination_configuration.blocks) < MaxDest
    /\ LET pos == Len(destination_configuration.blocks) + 1
           o == resolve_block(dc, kinds, lookup_raises)
           calls_query == o.yield /\ needs_query(aggregated)
           agg == IF calls_query /\ ~query_raises
                  THEN [is_none |-> FALSE,
                        rules |-> query_rules(repo, o.config.filters)]
                  ELSE aggregated
           query_failed == calls_query /\ query_raises
           build_failed == /\ o.yield
                           /\ ~query_failed
                           /\ build_content_raises(o.destination)
           emits == o.yield /\ ~query_failed /\ ~build_failed
       IN  /\ destination_configuration' =
                 [destination_configuration EXCEPT !.blocks = Append(@, dc)]
           /\ yielded' = IF o.yield
                         THEN Append(yielded, [pos |-> pos,
                                               config |-> o.config,
                                               destination |-> o.destination])
                         ELSE yielded
           /\ lookup_failed' = IF o.why = "lookup_error"
                               THEN lookup_failed \cup {pos}
                               ELSE lookup_failed
           /\ query_log' = IF calls_query
                           THEN Append(query_log,
                                       severities_argument(o.config.filters))
                           ELSE query_log
           /\ aggregated' = agg
           /\ emitted' = IF emits
                         THEN Append(emitted,
                                     build_message(pos, o.destination,
                                                   agg.rules))
                         ELSE emitted
           /\ failed_destinations' =
                 IF query_failed
                 THEN Append(failed_destinations,
                             [pos |-> pos, why |-> "query"])
                 ELSE IF build_failed
                 THEN Append(failed_destinations,
                             [pos |-> pos, why |-> "content"])
                 ELSE failed_destinations
           /\ qpc' = after_block(qpc, o)
           /\ tpc' = IF after_block(qpc, o) = "raised" THEN "raised"
                     ELSE IF query_failed \/ build_failed
                     THEN after_destination_error(tpc)
                     ELSE tpc
    /\ UNCHANGED <<action, repo, put_events_calls, kinds, earlier_calls>>
    /\ UNCHANGED <<dispVars, paramVars, sendVars, rulesVars>>

\* lines 310-323: one entry per message the generator yields
entries_of(msgs) ==
    [k \in 1..Len(msgs) |->
        [Source |-> "transformation",
         DetailType |-> "OutboundNotification",
         Detail |-> msgs[k]]]

\* variant of put_events_if_any: put_events is called with an empty list
put_events_always(log, entries, resp) ==
    Append(log, [Entries |-> entries, response |-> resp])

\* variant of put_events_if_any: a response reporting failed entries makes
\* create_summary call put_events again
put_events_retry_failed(log, entries, resp) ==
    IF entries = <<>> THEN log
    ELSE IF resp = "failed_entries"
    THEN Append(Append(log, [Entries |-> entries, response |-> resp]),
                [Entries |-> entries, response |-> "ok"])
    ELSE Append(log, [Entries |-> entries, response |-> resp])

\* lines 326-329: if entries: client.put_events(Entries=entries); the
\* response is logged
put_events_if_any(log, entries, resp) ==
    IF entries = <<>> THEN log
    ELSE Append(log, [Entries |-> entries, response |-> resp])

\* lines 310-329: the generator is exhausted; create_summary sends the
\* entries it collected, if any, in one put_events call.  resp is what the
\* event bus does: "ok", "failed_entries" (FailedEntryCount > 0 in the
\* response) or "raise" (the client raises)
PutEvents(resp) ==
    /\ tpc = "loop"
    /\ tpc' = IF emitted # <<>> /\ resp = "raise" THEN "put_events_raised"
              ELSE "done"
    /\ qpc' = "done"
    /\ put_events_calls' =
          put_events_if_any(put_events_calls, entries_of(emitted), resp)
    /\ UNCHANGED <<action, repo, aggregated, query_log, emitted,
                   failed_destinations, earlier_calls>>
    /\ UNCHANGED <<destination_configuration, kinds, yielded, lookup_failed>>
    /\ UNCHANGED <<dispVars, paramVars, sendVars, rulesVars>>

NextTransform ==
    \/ TransformStart
    \/ \E dc \in TransformBlockSpace, lr \in BOOLEAN, qr \in BOOLEAN :
          TransformBlock(dc, lr, qr)
    \/ \E resp \in {"ok", "failed_entries", "raise"} : PutEvents(resp)

SpecTransform == InitTransform /\ [][NextTransform]_vars

\* variant of fresh_aggregated: the result of the previous call is kept
stale_aggregated(prev) == prev

\* line 236: aggregated = None, a local of each transform_message call
fresh_aggregated(prev) == [is_none |-> TRUE, rules |-> <<>>]

\* create_summary has ended (returned or raised) and is called again by
\* record_handler: for the next record of the batch, in a later batch, or
\* for the same record delivered again (the same rows).  Every local of
\* the new call starts afresh.
NextMessage(a, rws) ==
    /\ tpc \in {"done", "raised", "put_events_raised"}
    /\ Len(earlier_calls) + 1 < MaxMessages
    /\ earlier_calls' = Append(earlier_calls, [repo |-> repo,
                                     aggregated |-> aggregated])
    /\ action' = a
    /\ repo' = rws
    /\ aggregated' = fresh_aggregated(aggregated)
    /\ query_log' = <<>>
    /\ emitted' = <<>>
    /\ put_events_calls' = <<>>
    /\ failed_destinations' = <<>>
    /\ tpc' = "start"
    /\ destination_configuration' = [present |-> TRUE, blocks |-> <<>>]
    /\ yielded' = <<>>
    /\ lookup_failed' = {}
    /\ qpc' = "idle"
    /\ UNCHANGED kinds
    /\ UNCHANGED <<dispVars, paramVars, sendVars, rulesVars>>

\* the action groups of the calls in a row: destinations with different
\* filters, and one whose content fails to build
MessageBlockSpace ==
    {Block("d_sns", "true", Filters(<<>>)),
     Block("d_sns2", "true", Filters(<<4>>)),
     Block("d_pubsub", "true", Filters(<<1>>)),
     Block("d_pubsub_nocred", "true", Filters(<<>>))}

NextMessages ==
    \/ TransformStart
    \/ \E dc \in MessageBlockSpace, qr \in BOOLEAN :
          TransformBlock(dc, FALSE, qr)
    \/ \E resp \in {"ok", "failed_entries", "raise"} : PutEvents(resp)
    \/ \E a \in {"missing", "cloud_scan", "asset_discovery"},
          rws \in RepoSpace : NextMessage(a, rws)

SpecMessages == InitTransform /\ [][NextMessages]_vars

\* the severity names a filter selects
SelectedNames(filters) ==
    {SeverityName(filters.severities[i]) : i \in 1..Len(filters.severities)}

\* the severities of the findings a message carries
FindingSeverities(m) ==
    {m.content.rules[g].resources[x].severity :
        <<g, x>> \in {<<a, b>> \in (1..Len(m.content.rules)) \X (1..MaxRows) :
                        b <= Len(m.content.rules[a].resources)}}

\* C7: per-destination severity filtering. Every emitted message holds
\* only findings of the severities its own destination's block selects,
\* and all the task's findings when the block has no severities filter.
PerDestinationFilter ==
    \A k \in 1..Len(emitted) :
        LET f == destination_configuration.blocks[emitted[k].pos].filters
        IN  /\ f.severities # <<>> =>
                 FindingSeverities(emitted[k]) \subseteq SelectedNames(f)
            /\ f.severities = <<>> =>
                 emitted[k].content.rules = aggregate_rows(<<>>, repo)

QuerySucceeded ==
    LET qfailed == {failed_destinations[k].pos :
                      k \in {i \in 1..Len(failed_destinations) :
                                failed_destinations[i].why = "query"}}
    IN  SelectSeq(yielded, LAMBDA y : y.pos \notin qfailed)

\* C31: all envelopes emitted for one message carry the same rules list,
\* the result of query_rules for the first destination whose call
\* returned, whatever the filters of the later destinations.
SameRulesList ==
    \A k \in 1..Len(emitted) :
        /\ QuerySucceeded # <<>>
        /\ ~aggregated.is_none
        /\ emitted[k].content.rules = aggregated.rules
        /\ emitted[k].content.rules =
              query_rules(repo, QuerySucceeded[1].config.filters)

SameRulesListWitness ==
    /\ tpc = "done"
    /\ Len(emitted) = 2
    /\ destination_configuration.blocks[1].filters.severities = <<4>>
    /\ destination_configuration.blocks[2].filters.severities = <<1>>
    /\ emitted[1].content.rules # <<>>
    /\ emitted[2].content.rules = emitted[1].content.rules
    /\ query_rules(repo, destination_configuration.blocks[2].filters)
         # emitted[2].content.rules

\* positions of the destinations whose loop body raised
FailedPositions ==
    {failed_destinations[k].pos : k \in 1..Len(failed_destinations)}

\* C21: per-destination failure isolation. A destination whose envelope
\* cannot be built gets no envelope, every other yielded destination gets
\* its envelope, in configuration order, and transform_message does not
\* raise because of it.
DestinationIsolation ==
    LET ypos == [k \in 1..Len(yielded) |-> yielded[k].pos]
        epos == [k \in 1..Len(emitted) |-> emitted[k].pos]
    IN  /\ \A k \in 1..Len(epos) : epos[k] \notin FailedPositions
        /\ epos = SelectSeq(ypos, LAMBDA q : q \notin FailedPositions)
        /\ tpc = "raised" => (action = "missing" /\ failed_destinations = <<>>)
        /\ failed_destinations # <<>> => tpc \in {"loop", "done",
                                                  "put_events_raised"}

DestinationIsolationWitness ==
    /\ tpc = "done"
    /\ Len(yielded) = 2
    /\ failed_destinations = <<[pos |-> 1, why |-> "content"]>>
    /\ yielded[1].destination.uid = "d_pubsub_nocred"
    /\ Len(emitted) = 1
    /\ emitted[1].pos = 2
    /\ Len(put_events_calls) = 1

DestinationOf(uid) == CHOOSE d \in Destinations : d.uid = uid

\* C29: every emitted envelope has msg_attrs route "ready_to_send" and the
\* identity of its content type, ("SnsSummaryInput", "1") for an aws_sns
\* destination and ("PubSubSummaryInput", "1") for a pubsub one, and carries
\* the topic address of its own destination.
EnvelopeIdentity ==
    \A k \in 1..Len(emitted) :
        LET msg == emitted[k]
            d == DestinationOf(
                     destination_configuration.blocks[msg.pos].destination_uid)
        IN  /\ msg.msg_attrs = [route |-> "ready_to_send"]
            /\ d.destination_type \in {"aws_sns", "pubsub"}
            /\ d.destination_type = "aws_sns" =>
                  <<msg.msg_type, msg.version>> = <<"SnsSummaryInput", "1">>
            /\ d.destination_type = "pubsub" =>
                  <<msg.msg_type, msg.version>> = <<"PubSubSummaryInput", "1">>
            /\ msg.content.address = d.address

EnvelopeIdentityWitness ==
    /\ tpc = "loop"
    /\ Len(emitted) = 2
    /\ emitted[1].msg_type = "SnsSummaryInput"
    /\ emitted[1].content.address = "arn:aws:sns:eu-west-1:1:topic"
    /\ emitted[2].msg_type = "PubSubSummaryInput"
    /\ emitted[2].content.address = "project/topic"

\* ------------------------------------------------------------------------
\* send_sns_summary (sender.py:63-80)
\* ------------------------------------------------------------------------
\* A topic ARN is the sequence of its fields between the colons.
\* the fields made of word characters and hyphens only, [\w-]+
WordFields == {"arn", "aws", "sns", "sqs", "us-east-1", "ap-southeast-1",
               "123456789012", "summary-topic"}

TopicArns ==
    {<<"arn", "aws", "sns", "us-east-1", "123456789012", "summary-topic">>,
     <<"arn", "aws", "sns", "ap-southeast-1", "123456789012",
       "summary-topic">>,
     <<"arn", "aws", "sns", "us-east-1", "", "summary-topic">>,
     <<"arn", "aws", "sns", "us-east-1", "">>,
     <<"arn", "aws", "sns", "us-east-1">>,
     <<"arn", "aws", "sns", "", "123456789012", "summary-topic">>,
     <<"arn", "aws", "sns", "us east 1", "123456789012", "summary-topic">>,
     <<"arn", "aws", "sqs", "us-east-1", "123456789012", "summary-topic">>,
     <<"summary-topic">>}

\* line 66: re.match(r"^arn:aws:sns:([\w-]+):.+$", topic_arn): the first
\* three fields are literal, the fourth is the group, and at least one
\* character follows its colon
arn_match(arn) ==
    /\ Len(arn) >= 5
    /\ arn[1] = "arn" /\ arn[2] = "aws" /\ arn[3] = "sns"
    /\ arn[4] \in WordFields
    /\ (Len(arn) > 5 \/ arn[5] # "")

\* variant of arn_group: the client is always made for one region
arn_group_default(arn) == "us-east-1"

\* line 68: m.group(1)
arn_group(arn) == arn[4]

\* line 75: message.content.summary.json()
summary_json(summary) == <<"json", summary>>

\* the content of the message send_sns_summary receives.  extra tells
\* whether the content object has the attributes org_uid and task_uid,
\* which SnsSummaryInputV1 (model/sns_summary.py:48-54) does not declare
SnsContents ==
    [sns_topic_arn : TopicArns, summary : [rules : 0..2], extra : BOOLEAN]

InitSend ==
    /\ DispIdle
    /\ RulesIdle
    /\ ResolveIdle
    /\ TransformIdle
    /\ ParamsIdle
    /\ sns_content \in SnsContents
    /\ region = ""
    /\ publish_calls = <<>>
    /\ approximate_receive_count = 1
    /\ spc = "start"

\* lines 65-68: m is None for an ARN the pattern does not match, and
\* m.group(1) raises
MatchArn ==
    /\ spc = "start"
    /\ IF arn_match(sns_content.sns_topic_arn)
       THEN /\ region' = arn_group(sns_content.sns_topic_arn)
            /\ spc' = "matched"
       ELSE /\ spc' = "raised"
            /\ UNCHANGED region
    /\ UNCHANGED <<sns_content, publish_calls, approximate_receive_count>>
    /\ UNCHANGED <<dispVars, rulesVars, resolveVars, transformVars, paramVars>>

\* lines 69-72: the log line reads message.content.org_uid and task_uid
LogSend ==
    /\ spc = "matched"
    /\ spc' = IF sns_content.extra THEN "logged" ELSE "raised"
    /\ UNCHANGED <<sns_content, region, publish_calls,
                   approximate_receive_count>>
    /\ UNCHANGED <<dispVars, rulesVars, resolveVars, transformVars, paramVars>>

\* variant of publish: a publish that raised is tried once more
publish_retry(log, content, reg, resp) ==
    LET call(r) == [Message |-> summary_json(content.summary),
                    TopicArn |-> content.sns_topic_arn,
                    region_name |-> reg,
                    response |-> r]
    IN  IF resp = "raise" THEN Append(Append(log, call(resp)), call("ok"))
        ELSE Append(log, call(resp))

\* lines 73-79: the client of the region publishes the summary to the topic
publish(log, content, reg, resp) ==
    Append(log, [Message |-> summary_json(content.summary),
                 TopicArn |-> content.sns_topic_arn,
                 region_name |-> reg,
                 response |-> resp])

\* lines 73-80: resp is what SNS does: "ok" (a response, which is logged)
\* or "raise" (the client raises)
Publish(resp) ==
    /\ spc = "logged"
    /\ publish_calls' = publish(publish_calls, sns_content, region, resp)
    /\ spc' = IF resp = "raise" THEN "raised" ELSE "done"
    /\ UNCHANGED <<sns_content, region, approximate_receive_count>>
    /\ UNCHANGED <<dispVars, rulesVars, resolveVars, transformVars, paramVars>>

NextSend ==
    \/ MatchArn
    \/ LogSend
    \/ \E resp \in {"ok", "raise"} : Publish(resp)

SpecSend == InitSend /\ [][NextSend]_vars

\* sender.py lines 99-110: send_sns_summary raised inside record_handler's
\* try block; the except clause gives the record up at MAX_RECEIVE_COUNT
\* and re-raises below it
HandleRaise ==
    /\ spc = "raised"
    /\ spc' = IF give_up(approximate_receive_count) THEN "dropped"
              ELSE "failed"
    /\ UNCHANGED <<sns_content, region, publish_calls,
                   approximate_receive_count>>
    /\ UNCHANGED <<dispVars, rulesVars, resolveVars, transformVars, paramVars>>

\* the failed record is delivered again, with the next receive count, and
\* send_sns_summary is called on the same message
Redeliver ==
    /\ spc = "failed"
    /\ approximate_receive_count' = approximate_receive_count + 1
    /\ region' = ""
    /\ publish_calls' = <<>>
    /\ spc' = "start"
    /\ UNCHANGED sns_content
    /\ UNCHANGED <<dispVars, rulesVars, resolveVars, transformVars, paramVars>>

NextDeliveries ==
    \/ NextSend
    \/ HandleRaise
    \/ Redeliver

SpecDeliveries == InitSend /\ [][NextDeliveries]_vars

\* one receiver call of either process: create_summary on an IndexComplete
\* message, or send_sns_summary on an SnsSummaryInput message
InitHandlers == InitTransform \/ InitSend

NextHandlers == NextTransform \/ NextSend

SpecHandlers == InitHandlers /\ [][NextHandlers]_vars

\* C24: fire-and-forget publish.  One receiver call makes at most one call
\* of its outbound transport (put_events, publish), as its last step; a
\* put_events response that reports failed entries is logged and the
\* receiver returns normally, so that the record succeeds.
FireAndForget ==
    /\ Len(put_events_calls) <= 1
    /\ Len(publish_calls) <= 1
    /\ put_events_calls # <<>> =>
          /\ tpc \in {"done", "put_events_raised"}
          /\ put_events_calls[1].response \in {"ok", "failed_entries"} =>
                tpc = "done"
    /\ publish_calls # <<>> =>
          /\ spc \in {"done", "raised"}
          /\ publish_calls[1].response = "ok" => spc = "done"

FireAndForgetWitness ==
    /\ tpc = "done"
    /\ Len(emitted) = 2
    /\ Len(put_events_calls) = 1
    /\ put_events_calls[1].response = "failed_entries"

\* the sender's side of C24: one publish call, which raised
FireAndForgetSendWitness ==
    /\ spc = "raised"
    /\ Len(publish_calls) = 1
    /\ publish_calls[1].response = "raise"
    /\ publish_calls[1].region_name = "ap-southeast-1"

\* the envelope identities transform_message can emit (lines 244-285)
EmittedIdentities ==
    {get_msg_type_id([destination_type |-> k]) : k \in TransformKinds}

\* C32: pipeline routing coverage. Every identity the transformation can
\* emit has a receiver in the sender, so that the sender never acknowledges
\* a record carrying an emitted summary without having called a receiver
\* for it.
RoutingCoverage ==
    proc = "sender" =>
        /\ \A tid \in EmittedIdentities : registry[tid] # {}
        /\ \A r \in Records :
              (/\ body[r].kind = "ok"
               /\ body[r].type_id \in EmittedIdentities
               /\ status[r] = "acked") => invocations[r] >= 1

\* the publish call send_sns_summary makes for its message
ExpectedPublish(resp) ==
    [Message |-> summary_json(sns_content.summary),
     TopicArn |-> sns_content.sns_topic_arn,
     region_name |-> sns_content.sns_topic_arn[4],
     response |-> resp]

MalformedArnDropped ==
    /\ spc = "dropped"
    /\ ~arn_match(sns_content.sns_topic_arn)
    /\ approximate_receive_count = MAX_RECEIVE_COUNT
    /\ publish_calls = <<>>

\* C35: the "Unsupported destination_type" branch of transform_message is
\* never taken: every destination the resolver yields for the kinds
\* aws_sns and pubsub is of one of these kinds, also when the action group
\* names a destination of another kind, and a content that fails to build
\* is that of a pubsub destination without credentials.
UnsupportedUnreachable ==
    /\ \A k \in 1..Len(yielded) :
          yielded[k].destination.destination_type \in {"aws_sns", "pubsub"}
    /\ \A k \in 1..Len(failed_destinations) :
          failed_destinations[k].why = "content" =>
              \E j \in 1..Len(yielded) :
                  /\ yielded[j].pos = failed_destinations[k].pos
                  /\ yielded[j].destination.destination_type = "pubsub"
                  /\ ~yielded[j].destination.has_credentials

UnsupportedUnreachableWitness ==
    /\ tpc = "done"
    /\ Len(destination_configuration.blocks) = 2
    /\ destination_configuration.blocks[1].destination_uid = "d_slack"
    /\ destination_configuration.blocks[1].is_enabled = "true"
    /\ Len(yielded) = 1
    /\ yielded[1].pos = 2
    /\ Len(emitted) = 1
    /\ failed_destinations = <<>>

\* C34: for a message whose action is not a cloud_scan, create_summary
\* resolves no destination, runs no aggregation, emits no envelope, makes
\* no put_events call and returns normally (the record succeeds).
NonCloudScanNoOp ==
    action = "asset_discovery" =>
        /\ destination_configuration.blocks = <<>>
        /\ yielded = <<>>
        /\ lookup_failed = {}
        /\ query_log = <<>>
        /\ aggregated.is_none
        /\ emitted = <<>>
        /\ failed_destinations = <<>>
        /\ put_events_calls = <<>>
        /\ tpc \in {"start", "loop", "done"}

NonCloudScanNoOpWitness ==
    /\ action = "asset_discovery"
    /\ repo # <<>>
    /\ tpc = "done"
    /\ qpc = "done"
    /\ put_events_calls = <<>>

\* the query_rules calls that raised
QueryFailures ==
    {k \in 1..Len(failed_destinations) :
        failed_destinations[k].why = "query"}

\* C37: an empty aggregation is memoized like any other. Once query_rules
\* has returned the empty list it is not called again for the message, and
\* every yielded destination whose content builds still gets its envelope,
\* with an empty rules list, which create_summary hands to put_events.
EmptyResultMemoized ==
    (~aggregated.is_none /\ aggregated.rules = <<>>) =>
        /\ Len(query_log) = Cardinality(QueryFailures) + 1
        /\ \A k \in 1..Len(emitted) : emitted[k].content.rules = <<>>
        /\ [k \in 1..Len(emitted) |-> emitted[k].pos] =
              SelectSeq([k \in 1..Len(yielded) |-> yielded[k].pos],
                        LAMBDA q : q \notin FailedPositions)
        /\ (tpc = "done" /\ emitted # <<>>) =>
              /\ Len(put_events_calls) = 1
              /\ put_events_calls[1].Entries = entries_of(emitted)

EmptyResultMemoizedWitness ==
    /\ tpc = "done"
    /\ ~aggregated.is_none
    /\ aggregated.rules = <<>>
    /\ Len(yielded) = 2
    /\ Len(emitted) = 2
    /\ Len(query_log) = 1
    /\ Len(put_events_calls) = 1
    /\ Len(put_events_calls[1].Entries) = 2

\* C38: the memoized aggregation is scoped to one call. Every call of
\* create_summary starts with nothing memoized, whatever an earlier call
\* (another record, another batch, the same record delivered before) has
\* aggregated, and what it memoizes and emits is query_rules' result for
\* its own task.
MemoScopedToCall ==
    /\ tpc = "start" => aggregated.is_none
    /\ ~aggregated.is_none =>
          /\ QuerySucceeded # <<>>
          /\ aggregated.rules =
                query_rules(repo, QuerySucceeded[1].config.filters)
    /\ \A k \in 1..Len(emitted) :
          /\ QuerySucceeded # <<>>
          /\ emitted[k].content.rules =
                query_rules(repo, QuerySucceeded[1].config.filters)
    /\ Len(query_log) > 0 =>
          \E k \in 1..Len(yielded) :
              query_log[1] = severities_argument(yielded[k].config.filters)

MemoScopedToCallWitness ==
    /\ tpc = "done"
    /\ Len(earlier_calls) = 1
    /\ ~earlier_calls[1].aggregated.is_none
    /\ earlier_calls[1].aggregated.rules # <<>>
    /\ earlier_calls[1].repo # repo
    /\ Len(query_log) = 1
    /\ Len(emitted) = 1
    /\ emitted[1].content.rules = <<>>

\* the redelivery side of C38: the same task is aggregated again
RedeliveryAggregatesAgain ==
    /\ tpc = "done"
    /\ Len(earlier_calls) = 1
    /\ earlier_calls[1].repo = repo
    /\ ~earlier_calls[1].aggregated.is_none
    /\ earlier_calls[1].aggregated.rules # <<>>
    /\ Len(query_log) = 1
    /\ aggregated = earlier_calls[1].aggregated

====
